---- MODULE Spec2Model ----
(***************************************************************************)
(* A model of backend/main.py of the TEMPO air-quality API: the index      *)
(* calculator (calculate_aqi), the per-file extraction                     *)
(* (process_tempo_netcdf), the orchestrator (process_tempo_data), the      *)
(* authentication cache (ensure_authentication) and the two entry points   *)
(* that reach the extraction (get_air_quality, get_overall_aqi).           *)
(*                                                                         *)
(* Numbers.  A reporting-unit value (ppb or DU) is an exact decimal with   *)
(* Scale steps per unit, held as the integer h = value * Scale; the index  *)
(* formulas are evaluated exactly, as fractions.  A raw file value is a    *)
(* decimal float sign * m * 10^e, or NaN.                                  *)
(***************************************************************************)
EXTENDS Integers, Sequences, FiniteSets, TLC

VARIABLES
    \* ---- calculate_aqi applied to an input (specification SpecAqi)
    aqi_pollutant,      \* the pollutant argument
    aqi_value,          \* the value argument
    aqi_result,         \* what calculate_aqi returned, or Pending
    \* ---- ensure_authentication called again and again (specification SpecAuth)
    auth_log,           \* history: one entry per call, in order
    \* ---- process-wide state (module globals and operating-system resources)
    earth_auth,         \* main.py:43
    auth_initialized,   \* main.py:44
    open_handles,       \* number of netCDF Dataset handles open in the process
    temp_dirs,          \* number of temporary directories that exist
    \* ---- the request
    pc,                 \* position of the request in the code
    entry,              \* "/air-quality" or "/overall-aqi"
    lat, lon,           \* the request's coordinate, in whole degrees
    poll_list,          \* get_overall_aqi: the pollutants asked for
    k,                  \* get_overall_aqi: index of the pollutant in progress
    per_pollutant,      \* get_overall_aqi: the items built so far
    overall_aqi,        \* get_overall_aqi
    primary_pollutant,  \* get_overall_aqi
    pollutant,          \* get_air_quality: the pollutant argument
    authenticated,      \* get_air_quality / process_tempo_data: local auth
    granules_count,     \* get_air_quality: len(results)
    i,                  \* process_tempo_data: 1-based position in granules[:3]
    touched,            \* history: positions of the granules downloaded so far
    misses,             \* history: positions of the granules that gave no value
    granule,            \* the granule at position i: download outcome and file
    nc,                 \* process_tempo_netcdf: "unopened", "open" or "closed"
    nc_result,          \* what process_tempo_netcdf returned for this granule
    printed,            \* diagnostics process_tempo_netcdf printed for this granule
    result,             \* what process_tempo_data returned
    reading,            \* get_air_quality: the AirQualityReading returned
    response            \* what the entry point answered

avars == <<aqi_pollutant, aqi_value, aqi_result, auth_log>>
gvars == <<earth_auth, auth_initialized, open_handles, temp_dirs>>
ovars == <<entry, lat, lon, poll_list, k, per_pollutant, overall_aqi, primary_pollutant>>
rvars == <<pollutant, authenticated, granules_count, i, touched, misses, granule, nc,
           nc_result, printed, result, reading, response>>
vars == <<avars, gvars, ovars, rvars, pc>>

----------------------------------------------------------------------------
(* Bounds of the model.                                                    *)

\* decimal digits kept after the point of a reporting-unit value
Digits == 2
\* largest reporting-unit value handed to calculate_aqi
MaxValue == 700
\* spacing, in steps, of the values tried between the breakpoints
GridStep == 50
\* longest candidate list a search returns
MaxGranules == 4
\* most calls of ensure_authentication in a history
MaxCalls == 4

----------------------------------------------------------------------------
(* Python values.                                                          *)

\* steps per reporting unit: values are multiples of 1 / Scale
Scale == 10 ^ Digits

None == [k |-> "None"]
NaN == [k |-> "nan"]
\* the float h / Scale
Num(h) == [k |-> "num", h |-> h]
\* the int n
Int_(n) == [k |-> "int", n |-> n]
Pending == [k |-> "pending"]

\* the fraction n / d, d > 0
Frac(n, d) == [n |-> n, d |-> d]

\* int(x) of a float x = n / d: truncation toward zero
int(x) == IF x.n >= 0 THEN x.n \div x.d ELSE -((-x.n) \div x.d)

\* base + (value - lower) * mul_n / mul_d, for value = h / Scale
Affine(base, h, lower, mul_n, mul_d) ==
    Frac(base * Scale * mul_d + (h - lower * Scale) * mul_n, Scale * mul_d)

----------------------------------------------------------------------------
(* calculate_aqi, main.py:70-128.                                          *)

\* one branch of an if / elif chain: the bound of its test value <= upper
\* (unused for the else branch), its formula base + (value - lower) * mul_n
\* / mul_d and its level
Seg(upper, base, lower, mul_n, mul_d, level) ==
    [upper |-> upper, base |-> base, lower |-> lower, mul_n |-> mul_n, mul_d |-> mul_d,
     level |-> level]

\* lines 74-126: the branches of a pollutant, in the order they are tested;
\* the last one is the else branch
Table(p) ==
    IF p = "NO2" THEN
        <<Seg(53, 0, 0, 50, 53, "Good"),
          Seg(100, 50, 53, 50, 47, "Moderate"),
          Seg(360, 100, 100, 100, 260, "Unhealthy for Sensitive Groups"),
          Seg(649, 200, 360, 100, 289, "Unhealthy"),
          Seg(0, 300, 649, 100, 351, "Very Unhealthy")>>
    ELSE IF p = "O3" THEN
        <<Seg(300, 0, 0, 1, 6, "Good"),
          Seg(350, 50, 300, 1, 1, "Moderate"),
          Seg(400, 100, 350, 1, 1, "Unhealthy for Sensitive Groups"),
          Seg(500, 150, 400, 1, 2, "Unhealthy"),
          Seg(0, 200, 500, 1, 5, "Very Unhealthy")>>
    ELSE IF p = "HCHO" THEN
        <<Seg(10, 0, 0, 50, 10, "Good"),
          Seg(20, 50, 10, 50, 10, "Moderate"),
          Seg(0, 100, 20, 2, 1, "Unhealthy for Sensitive Groups")>>
    ELSE
        <<Seg(50, 0, 0, 1, 1, "Good"),
          Seg(100, 50, 50, 1, 1, "Moderate"),
          Seg(0, 100, 100, 1, 2, "Unhealthy for Sensitive Groups")>>

\* the formula of every branch reads the value from 0, not from its lower bound
Formula_from_zero(s, h) == Affine(s.base, h, 0, s.mul_n, s.mul_d)

\* the formula of branch s at value h / Scale
Formula(s, h) == Affine(s.base, h, s.lower, s.mul_n, s.mul_d)

\* the tests are value < upper
SegmentIndex_strict(p, h) ==
    LET t == Table(p) IN
    IF \E n \in 1..(Len(t) - 1) : h < t[n].upper * Scale
    THEN CHOOSE n \in 1..(Len(t) - 1) :
            /\ h < t[n].upper * Scale
            /\ \A q \in 1..(n - 1) : ~(h < t[q].upper * Scale)
    ELSE Len(t)

\* the branch taken: the first whose test value <= upper holds, else the last
SegmentIndex(p, h) ==
    LET t == Table(p) IN
    IF \E n \in 1..(Len(t) - 1) : h <= t[n].upper * Scale
    THEN CHOOSE n \in 1..(Len(t) - 1) :
            /\ h <= t[n].upper * Scale
            /\ \A q \in 1..(n - 1) : ~(h <= t[q].upper * Scale)
    ELSE Len(t)

\* the affine formula and the level of the segment chosen for value h / Scale
Segment(p, h) ==
    LET s == Table(p)[SegmentIndex(p, h)] IN
    [aqi |-> Formula(s, h), level |-> s.level]

\* line 128: return int(aqi) if aqi else None, level
IndexOf(seg) ==
    [aqi |-> IF seg.aqi.n # 0 THEN Int_(int(seg.aqi)) ELSE None,
     level |-> seg.level]

\* lines 71-72 dropped: an absent or NaN value is scored like the value 0
calculate_aqi_unguarded(p, value) ==
    IF value.k = "num" THEN IndexOf(Segment(p, value.h))
    ELSE [aqi |-> Int_(0), level |-> "Good"]

calculate_aqi(p, value) ==
    IF value.k = "None" \/ value.k = "nan"
    THEN [aqi |-> None, level |-> "No disponible"]
    ELSE IndexOf(Segment(p, value.h))

----------------------------------------------------------------------------
(* Raw file values: the float s * m * 10^e (s the sign, m >= 0), or NaN.   *)

Raw(s, m, e) == [k |-> "raw", s |-> s, m |-> m, e |-> e]

\* mantissas stay below 10^MantDigits
MantDigits == 4

\* m1 * 10^e1 > m2 * 10^e2, for mantissas below 10^MantDigits
MagGt(m1, e1, m2, e2) ==
    IF m1 = 0 THEN FALSE
    ELSE IF m2 = 0 THEN TRUE
    ELSE IF e1 >= e2
         THEN (e1 - e2 > MantDigits) \/ (m1 * 10 ^ (e1 - e2) > m2)
         ELSE (e2 - e1 <= MantDigits) /\ (m1 > m2 * 10 ^ (e2 - e1))

\* x > s2 * m2 * 10^e2 and x < s2 * m2 * 10^e2, for a raw number x
RawGt(x, s2, m2, e2) ==
    IF x.s > 0 THEN (s2 < 0 /\ (x.m # 0 \/ m2 # 0)) \/ (s2 > 0 /\ MagGt(x.m, x.e, m2, e2))
    ELSE IF s2 > 0 THEN FALSE ELSE MagGt(m2, e2, x.m, x.e)
RawLt(x, s2, m2, e2) ==
    IF x.s < 0 THEN (s2 > 0 /\ (x.m # 0 \/ m2 # 0)) \/ (s2 < 0 /\ MagGt(x.m, x.e, m2, e2))
    ELSE IF s2 < 0 THEN FALSE ELSE MagGt(m2, e2, x.m, x.e)

\* a finite positive float beyond the decimals the model holds (it is
\* above 2^31 steps)
Huge == [k |-> "huge"]

\* the products m * 10^ex that the model holds as decimals
Holds(m, ex) == m = 0 \/ ex < 0 \/ (ex <= 9 /\ m <= 2147483647 \div 10 ^ ex)

\* m * 10^ex in whole steps
Steps(m, ex) ==
    IF ex >= 0 THEN m * 10 ^ ex
    ELSE IF ex < -9 THEN 0
    ELSE m \div 10 ^ (-ex)

\* the sign of x is kept: x * fm * 10^fe
Scaled_signed(x, fm, fe) ==
    LET ex == x.e + fe + Digits IN
    IF ~Holds(x.m * fm, ex) THEN Huge ELSE Num(x.s * Steps(x.m * fm, ex))

\* abs(x) * fm * 10^fe as a reporting-unit value
Scaled(x, fm, fe) ==
    LET ex == x.e + fe + Digits IN
    IF ~Holds(x.m * fm, ex) THEN Huge ELSE Num(Steps(x.m * fm, ex))

----------------------------------------------------------------------------
(* convert_molecules_to_ppb, main.py:130-141.  The None / NaN guard of     *)
(* lines 131-132 returns None; the factors are 5e-16 (NO2, and the         *)
(* default) and 8e-16 (HCHO).                                              *)

convert_molecules_to_ppb(molecules_cm2, p) ==
    IF molecules_cm2.k = "None" \/ molecules_cm2.k = "nan" THEN None
    ELSE Scaled(molecules_cm2, IF p = "HCHO" THEN 8 ELSE 5, -16)

----------------------------------------------------------------------------
(* numpy arrays: a shape and the elements in row-major order.  Indices are *)
(* 0-based as in the code.                                                 *)

Array(shape, flat) == [shape |-> shape, flat |-> flat]
ndim(a) == Len(a.shape)

\* data[0]: the first slice along the first axis (IndexError when it is empty)
FirstSlice(a) ==
    LET rest == Tail(a.shape)
        n == IF a.shape[1] = 0 THEN 0 ELSE Len(a.flat) \div a.shape[1]
    IN  Array(rest, SubSeq(a.flat, 1, n))

Abs(x) == IF x < 0 THEN -x ELSE x

\* numpy's argmin of a non-empty sequence: the first position of the minimum
ArgMin(s) ==
    (CHOOSE j \in 1..Len(s) :
        /\ \A q \in 1..Len(s) : s[j] <= s[q]
        /\ \A q \in 1..(j - 1) : s[q] > s[j]) - 1

\* np.abs(coords - target), element by element
AbsDiff(coords, target) == [j \in 1..Len(coords.flat) |-> Abs(coords.flat[j] - target)]

\* np.meshgrid(lons, lats): both of shape (len(lats), len(lons))
MeshLats(lats, lons) ==
    LET r == Len(lats.flat)
        c == Len(lons.flat)
    IN  Array(<<r, c>>, [j \in 1..(r * c) |-> lats.flat[((j - 1) \div c) + 1]])
MeshLons(lats, lons) ==
    LET r == Len(lats.flat)
        c == Len(lons.flat)
    IN  Array(<<r, c>>, [j \in 1..(r * c) |-> lons.flat[((j - 1) % c) + 1]])

\* (lats_2d - lat)**2 + (lons_2d - lon)**2; the square root keeps the order
SqDistances(lats_2d, lons_2d, la, lo) ==
    [j \in 1..Len(lats_2d.flat) |->
        (lats_2d.flat[j] - la) * (lats_2d.flat[j] - la)
        + (lons_2d.flat[j] - lo) * (lons_2d.flat[j] - lo)]

\* the flat index is read column by column
Unravel_column_major(flat, shape) ==
    IF Len(shape) = 1 THEN <<flat>>
    ELSE <<flat % shape[1], flat \div shape[1]>>

\* np.unravel_index(flat, shape), for a shape of one or two axes
Unravel(flat, shape) ==
    IF Len(shape) = 1 THEN <<flat>>
    ELSE <<flat \div shape[2], flat % shape[2]>>

\* data[idx] for an index tuple: in bounds, and one index per axis
CanIndex(a, idx) ==
    /\ Len(idx) = ndim(a)
    /\ \A d \in 1..Len(idx) : idx[d] < a.shape[d]
At(a, idx) ==
    IF Len(idx) = 1 THEN a.flat[idx[1] + 1]
    ELSE a.flat[idx[1] * a.shape[2] + idx[2] + 1]

----------------------------------------------------------------------------
(* A netCDF file: whether Dataset() can open it, the variables at its root *)
(* and its groups with their variables (a function from names to arrays).  *)

NcFile(opens, root, groups) == [opens |-> opens, root |-> root, groups |-> groups]

\* no variables, no groups
Empty == [x \in {} |-> x]

\* the first of names that is a variable of container vm, "" when none is
FirstName(vm, names) ==
    IF \E j \in 1..Len(names) : names[j] \in DOMAIN vm
    THEN names[CHOOSE j \in 1..Len(names) :
                 /\ names[j] \in DOMAIN vm
                 /\ \A q \in 1..(j - 1) : names[q] \notin DOMAIN vm]
    ELSE ""

----------------------------------------------------------------------------
(* process_tempo_netcdf, main.py:143-325, from the opened file on.         *)

\* a result dict, lines 313 and 318
Dict(value, var_name) == [k |-> "dict", value |-> value, variable_used |-> var_name]

\* what the call printed about the variables it looked for
Diag(probed, available) == [probed |-> probed, available |-> available]
NoDiag == Diag(<<>>, {})

\* how the call ended: the value returned, whether nc.close() ran, the diagnostics
Returned(ret, closed, diag) == [ret |-> ret, closed |-> closed, printed |-> diag]

\* lines 322-325: the handler prints the error and returns None
Caught(diag) == Returned(None, FALSE, diag)

\* lines 163-167 ("" stands for the None of var_map.get)
var_map(p) ==
    CASE p = "NO2" -> "vertical_column_troposphere"
      [] p = "HCHO" -> "vertical_column"
      [] p = "O3" -> "column_amount_o3"
      [] OTHER -> ""

\* lines 253-257
l2_var_options(p) ==
    CASE p = "NO2" -> <<"nitrogen_dioxide_tropospheric_column", "NO2_column", "tropospheric_NO2">>
      [] p = "HCHO" -> <<"formaldehyde_tropospheric_column", "HCHO_column", "tropospheric_HCHO">>
      [] p = "O3" -> <<"ozone_total_vertical_column", "O3_column", "total_O3">>
      [] OTHER -> <<>>

\* line 302: np.isnan(value) or value < -9e30 or value > 1e30
IsInvalid(value) ==
    value.k = "nan" \/ RawLt(value, -1, 9, 30) \/ RawGt(value, 1, 1, 30)

\* lines 299-320, after nc.close()
Converted(value, var_name, p) ==
    IF IsInvalid(value) THEN None
    ELSE IF p \in {"NO2", "HCHO"} THEN Dict(convert_molecules_to_ppb(value, p), var_name)
    ELSE IF p = "O3" THEN Dict(Scaled(value, 1, 0), var_name)
    ELSE None

\* a longitude that is not there is taken from the latitude array
L3Coords_defaulting(f) ==
    LET lat_name == FirstName(f.root, <<"latitude", "lat">>)
        lon_name == FirstName(f.root, <<"longitude", "lon">>)
    IN  [lats |-> IF lat_name = "" THEN None ELSE f.root[lat_name],
         lons |-> IF lon_name # "" THEN f.root[lon_name]
                  ELSE IF lat_name # "" THEN f.root[lat_name] ELSE None]

\* lines 181-198: the coordinate arrays of a file with the product group,
\* looked for at the root only; None for one that is not there
L3Coords(f) ==
    LET lat_name == FirstName(f.root, <<"latitude", "lat">>)
        lon_name == FirstName(f.root, <<"longitude", "lon">>)
    IN  [lats |-> IF lat_name = "" THEN None ELSE f.root[lat_name],
         lons |-> IF lon_name = "" THEN None ELSE f.root[lon_name]]

\* lines 218-219: the nearest index of each axis
L3Nearest(lats, lons, la, lo) ==
    <<ArgMin(AbsDiff(lats, la)), ArgMin(AbsDiff(lons, lo))>>

\* lines 158-226: the file has the product group
L3Read(f, la, lo, p) ==
    LET product == f.groups["product"]
        var_name == var_map(p)
        diag == Diag(<<var_name>>, DOMAIN product)
        lats == L3Coords(f).lats
        lons == L3Coords(f).lons
    IN  IF var_name = "" \/ var_name \notin DOMAIN product
        THEN Returned(None, TRUE, diag)
        ELSE IF lats = None \/ lons = None THEN Returned(None, TRUE, NoDiag)
        ELSE LET data0 == product[var_name] IN
             IF ndim(data0) = 3 /\ data0.shape[1] = 0 THEN Caught(NoDiag)
             ELSE LET data == IF ndim(data0) = 3 THEN FirstSlice(data0) ELSE data0 IN
                  IF ndim(data) # 2 THEN Returned(None, TRUE, NoDiag)
                  \* argmin of an empty array raises
                  ELSE IF Len(lats.flat) = 0 \/ Len(lons.flat) = 0 THEN Caught(NoDiag)
                  \* argmin gives a position in the flattened array; line 222
                  \* indexes the first axis with it and formats the element
                  \* as a float: out of bounds, or a row, both raise
                  ELSE IF ndim(lats) # 1 \/ ndim(lons) # 1 THEN Caught(NoDiag)
                  ELSE LET idx == L3Nearest(lats, lons, la, lo) IN
                       IF ~CanIndex(data, idx) THEN Caught(NoDiag)
                       ELSE Returned(Converted(At(data, idx), var_name, p), TRUE, NoDiag)

\* lines 233-250: the coordinate arrays of a file without the product
\* group, at the root or else in the geolocation group
L2Coords(f) ==
    LET at_root == "latitude" \in DOMAIN f.root /\ "longitude" \in DOMAIN f.root
        geoloc == IF "geolocation" \in DOMAIN f.groups THEN f.groups["geolocation"] ELSE Empty
        in_geoloc == "latitude" \in DOMAIN geoloc /\ "longitude" \in DOMAIN geoloc
    IN  IF at_root THEN [lats |-> f.root["latitude"], lons |-> f.root["longitude"]]
        ELSE IF in_geoloc THEN [lats |-> geoloc["latitude"], lons |-> geoloc["longitude"]]
        ELSE [lats |-> None, lons |-> None]

\* lines 263-267
search_locations(f) ==
    <<f.root>>
    \o (IF "product" \in DOMAIN f.groups THEN <<f.groups["product"]>> ELSE <<>>)
    \o (IF "geophysical_data" \in DOMAIN f.groups
        THEN <<f.groups["geophysical_data"]>> ELSE <<>>)

\* lines 269-277: the first location that holds a candidate, and its first candidate
FoundAt(f, p) ==
    LET locs == search_locations(f) IN
    IF \E j \in 1..Len(locs) : FirstName(locs[j], l2_var_options(p)) # ""
    THEN CHOOSE j \in 1..Len(locs) :
            /\ FirstName(locs[j], l2_var_options(p)) # ""
            /\ \A q \in 1..(j - 1) : FirstName(locs[q], l2_var_options(p)) = ""
    ELSE 0

\* lines 289-296: the nearest cell of the grid, for arrays the subtraction
\* and the sum accept
L2Nearest(lats, lons, la, lo) ==
    LET one_d == ndim(lats) = 1 /\ ndim(lons) = 1
        lats_2d == IF one_d THEN MeshLats(lats, lons) ELSE lats
        lons_2d == IF one_d THEN MeshLons(lats, lons) ELSE lons
    IN  Unravel(ArgMin(SqDistances(lats_2d, lons_2d, la, lo)), lats_2d.shape)

\* lines 284-297, with the coordinate arrays and the variable found
L2Extract(lats, lons, data0, var_name, la, lo, p) ==
    IF ndim(data0) = 3 /\ data0.shape[1] = 0 THEN Caught(NoDiag)
    ELSE LET data == IF ndim(data0) = 3 THEN FirstSlice(data0) ELSE data0
             one_d == ndim(lats) = 1 /\ ndim(lons) = 1
         IN  \* arrays of different shapes: the subtraction or the sum raises
             IF ~one_d /\ lats.shape # lons.shape THEN Caught(NoDiag)
             \* argmin of an empty array raises
             ELSE IF Len(lats.flat) = 0 \/ Len(lons.flat) = 0 THEN Caught(NoDiag)
             ELSE LET min_idx == L2Nearest(lats, lons, la, lo) IN
                  IF ~CanIndex(data, min_idx) THEN Caught(NoDiag)
                  ELSE Returned(Converted(At(data, min_idx), var_name, p), TRUE, NoDiag)

\* lines 229-297: the file has no product group
L2Read(f, la, lo, p) ==
    LET coords == L2Coords(f)
        loc == FoundAt(f, p)
    IN  IF coords.lats = None THEN Returned(None, TRUE, NoDiag)
        ELSE IF loc = 0 THEN Returned(None, TRUE, NoDiag)
        ELSE LET where == search_locations(f)[loc]
                 var_name == FirstName(where, l2_var_options(p))
             IN  L2Extract(coords.lats, coords.lons, where[var_name], var_name, la, lo, p)

\* lines 156-325, for a file Dataset() has opened
process_tempo_netcdf(f, la, lo, p) ==
    IF "product" \in DOMAIN f.groups THEN L3Read(f, la, lo, p) ELSE L2Read(f, la, lo, p)

----------------------------------------------------------------------------
(* The state of a process that is serving no request.                      *)

NoGranule == [download |-> "none", file |-> "none"]

IdleRequest ==
    /\ entry = "none" /\ lat = 0 /\ lon = 0
    /\ poll_list = <<>> /\ k = 0 /\ per_pollutant = <<>>
    /\ overall_aqi = None /\ primary_pollutant = "None"
    /\ pollutant = "None" /\ authenticated = FALSE /\ granules_count = 0
    /\ i = 0 /\ touched = <<>> /\ misses = <<>> /\ granule = NoGranule
    /\ nc = "unopened" /\ nc_result = None /\ printed = NoDiag
    /\ result = None /\ reading = None /\ response = None

IdleProcess ==
    /\ earth_auth = "None" /\ auth_initialized = FALSE
    /\ open_handles = 0 /\ temp_dirs = 0

----------------------------------------------------------------------------
(* SpecAqi: calculate_aqi applied once to an input drawn from the          *)
(* pollutants and from the values around every breakpoint and on a grid.   *)

AqiPollutants == {"NO2", "O3", "HCHO", "PM25"}

\* the upper bounds of the segments of lines 74-126
Breakpoints == {10, 20, 50, 53, 100, 300, 350, 360, 400, 500, 649}

AqiSteps ==
    {h \in (-Scale)..(MaxValue * Scale) :
        \/ h % GridStep = 0
        \/ h \in -1..1
        \/ \E b \in Breakpoints : Abs(h - b * Scale) \in {0, 1, Scale \div 100}}

AqiInputs == {None, NaN} \cup {Num(h) : h \in AqiSteps}

InitAqi ==
    /\ aqi_pollutant \in AqiPollutants
    /\ aqi_value \in AqiInputs
    /\ aqi_result = Pending /\ auth_log = <<>>
    /\ IdleProcess /\ IdleRequest /\ pc = "idle"

CalcAqi ==
    /\ aqi_result = Pending
    /\ aqi_result' = calculate_aqi(aqi_pollutant, aqi_value)
    /\ UNCHANGED <<aqi_pollutant, aqi_value, auth_log, gvars, ovars, rvars, pc>>

NextAqi == CalcAqi

SpecAqi == InitAqi /\ [][NextAqi]_vars

----------------------------------------------------------------------------
(* Claims about calculate_aqi, checked under SpecAqi.                      *)

AqiDone == aqi_result # Pending

\* C9: for every pollutant, calculate_aqi of an absent (None) or NaN value
\* returns the absent-value marker as score with the category
\* "No disponible", never a numeric score.
C9_AbsentValueUnavailable ==
    (AqiDone /\ aqi_value.k \in {"None", "nan"})
        => (aqi_result.aqi = None /\ aqi_result.level = "No disponible")

\* C9 witness: calculate_aqi has answered a NaN value for a pollutant
\* outside the three tables.
C9_Witness ==
    /\ AqiDone /\ aqi_value = NaN /\ aqi_pollutant = "PM25"
    /\ aqi_result.aqi = None

\* C10: calculate_aqi returns an integer score for every finite value >= 0,
\* zero included, and the absent-value marker only for an absent or NaN
\* value.
C10_TotalOverNonNegative ==
    AqiDone =>
        /\ (aqi_value.k = "num" /\ aqi_value.h >= 0) => aqi_result.aqi.k = "int"
        /\ aqi_result.aqi = None => aqi_value.k \in {"None", "nan"}

\* the branches of the pollutant in the state, and the value in steps
AqiTable == Table(aqi_pollutant)

RECURSIVE GCD(_, _)
GCD(a, b) == IF b = 0 THEN a ELSE GCD(b, a % b)

\* the fractions x and y are the same number
FracEq(x, y) ==
    LET g == GCD(x.d, y.d) IN
    /\ x.n \div x.d = y.n \div y.d
    /\ (x.n % x.d) * (y.d \div g) = (y.n % y.d) * (x.d \div g)

\* C11: for every pollutant table, the formula of segment n at its upper
\* bound equals the formula of segment n+1 at the same value.
C11_ContinuousAtBreakpoints ==
    (AqiDone /\ aqi_value.k = "num") =>
        \A n \in 1..(Len(AqiTable) - 1) :
            aqi_value.h = AqiTable[n].upper * Scale =>
                FracEq(Formula(AqiTable[n], aqi_value.h),
                       Formula(AqiTable[n + 1], aqi_value.h))

\* C11 witness: calculate_aqi has scored NO2 at its last breakpoint, 649,
\* where both segments give 300.
C11_Witness ==
    /\ AqiDone /\ aqi_pollutant = "NO2" /\ aqi_value = Num(649 * Scale)
    /\ FracEq(Formula(AqiTable[5], aqi_value.h), Frac(300, 1))
    /\ aqi_result.aqi = Int_(300)

\* C12: for every pollutant and any two values 0 <= v1 <= v2, the score
\* calculate_aqi returns for v1 is not greater than the score for v2.
C12_MonotoneScore ==
    (AqiDone /\ aqi_value.k = "num" /\ aqi_value.h >= 0) =>
        \A h1 \in AqiSteps :
            (0 <= h1 /\ h1 <= aqi_value.h) =>
                LET s1 == calculate_aqi(aqi_pollutant, Num(h1)).aqi IN
                /\ s1.k = "int" /\ aqi_result.aqi.k = "int"
                /\ s1.n <= aqi_result.aqi.n

\* the segment scored is the first whose upper bound is >= the value (the
\* last one when there is none), and the level is that segment's
SelectsFirstSegment ==
    (AqiDone /\ aqi_value.k = "num") =>
        \E n \in 1..Len(AqiTable) :
            /\ n < Len(AqiTable) => aqi_value.h <= AqiTable[n].upper * Scale
            /\ \A q \in 1..(n - 1) : aqi_value.h > AqiTable[q].upper * Scale
            /\ aqi_result.level = AqiTable[n].level
            /\ aqi_result.aqi \in {None, Int_(int(Formula(AqiTable[n], aqi_value.h)))}

\* calculate_aqi has scored NO2 at 53.0 / at 53.01
AtNO2Boundary == AqiDone /\ aqi_pollutant = "NO2" /\ aqi_value = Num(53 * Scale)
AboveNO2Boundary ==
    AqiDone /\ aqi_pollutant = "NO2" /\ aqi_value = Num(53 * Scale + Scale \div 100)

\* C13 (as the code has it): calculate_aqi selects the first segment whose
\* upper bound is >= value, and the level changes at the same breakpoints as
\* the formula; NO2 at 53.0 gives index 50 and "Good", NO2 at 53.01 gives
\* "Moderate" with the index 50 again, the truncation of a formula value
\* just above 50.
C13_SegmentSelection ==
    /\ SelectsFirstSegment
    /\ AtNO2Boundary => aqi_result = [aqi |-> Int_(50), level |-> "Good"]
    /\ AboveNO2Boundary => aqi_result = [aqi |-> Int_(50), level |-> "Moderate"]

\* C13 witness: NO2 at 53.01 was scored "Moderate", index 50, from a
\* formula value above 50.
C13_Witness ==
    /\ AboveNO2Boundary
    /\ aqi_result = [aqi |-> Int_(50), level |-> "Moderate"]
    /\ LET f == Formula(AqiTable[2], aqi_value.h) IN f.n > 50 * f.d

\* C13 as stated: the same, with an index greater than 50 for NO2 at 53.01.
C13_IndexAboveFifty ==
    /\ SelectsFirstSegment
    /\ AtNO2Boundary => aqi_result = [aqi |-> Int_(50), level |-> "Good"]
    /\ AboveNO2Boundary =>
        (aqi_result.level = "Moderate" /\ aqi_result.aqi.k = "int"
         /\ aqi_result.aqi.n > 50)

\* C14: for every pollutant and non-negative value, the index returned is
\* the truncation of the segment's formula: the largest integer not
\* exceeding the formula's value.
C14_IndexIsTruncation ==
    (AqiDone /\ aqi_value.k = "num" /\ aqi_value.h >= 0) =>
        LET f == Segment(aqi_pollutant, aqi_value.h).aqi IN
        /\ aqi_result.aqi.k = "int"
        /\ aqi_result.aqi.n * f.d <= f.n
        /\ f.n < (aqi_result.aqi.n + 1) * f.d

----------------------------------------------------------------------------
(* The files a download can deliver.  Grids are 3 x 3 around the point     *)
(* (40, -100); the cell nearest to it is the middle one.                   *)

Lats1D == Array(<<3>>, <<39, 40, 41>>)
Lons1D == Array(<<3>>, <<-101, -100, -99>>)
Lats2D == Array(<<3, 3>>, <<39, 39, 39, 40, 40, 40, 41, 41, 41>>)
Lons2D == Array(<<3, 3>>, <<-101, -100, -99, -101, -100, -99, -101, -100, -99>>)

\* a 3 x 3 measurement whose middle cell holds centre
Data3x3(centre) ==
    Array(<<3, 3>>, [j \in 1..9 |-> IF j = 5 THEN centre ELSE Raw(1, j, 14)])

RootGrid1D == ("latitude" :> Lats1D) @@ ("longitude" :> Lons1D)

L3Product(no2, hcho, o3) ==
    ("vertical_column_troposphere" :> Data3x3(no2))
    @@ ("vertical_column" :> Data3x3(hcho))
    @@ ("column_amount_o3" :> Data3x3(o3))
    @@ ("main_data_quality_flag" :> Data3x3(Raw(1, 0, 0)))

\* axes of 2 and 3 entries, two degrees apart
LatAxis2 == Array(<<2>>, <<38, 40>>)
LonAxis3 == Array(<<3>>, <<-102, -100, -98>>)
\* a 3 x 3 grid one cell further north-east than RootGrid1D
ShiftedGrid1D ==
    ("latitude" :> Array(<<3>>, <<40, 41, 42>>))
    @@ ("longitude" :> Array(<<3>>, <<-100, -99, -98>>))

\* a 2 x 3 measurement whose cell j holds s * j * 10^e
Data2x3(sgn, e) == Array(<<2, 3>>, [j \in 1..6 |-> Raw(sgn, j, e)])

\* a 3 x 3 measurement that holds v in every cell
Uniform3x3(v) == Array(<<3, 3>>, [j \in 1..9 |-> v])

FileIds ==
    {"l3_ok", "l3_novar", "l3_nocoord", "l3_fill", "l3_short", "corrupt",
     "l2_ok", "l2_geo", "l3_zero"}

FileOf(id) ==
    CASE id = "l3_ok" ->
            \* NO2 2e15 molecules/cm2, HCHO 1.25e15 molecules/cm2, O3 320 DU
            NcFile(TRUE, RootGrid1D,
                   "product" :> L3Product(Raw(1, 2, 15), Raw(1, 125, 13), Raw(1, 320, 0)))
      [] id = "l3_novar" ->
            NcFile(TRUE, RootGrid1D,
                   "product" :> ("main_data_quality_flag" :> Data3x3(Raw(1, 0, 0))))
      [] id = "l3_nocoord" ->
            NcFile(TRUE, "latitude" :> Lats1D,
                   "product" :> L3Product(Raw(1, 2, 15), Raw(1, 125, 13), Raw(1, 320, 0)))
      [] id = "l3_fill" ->
            \* the nearest cell is masked (NaN) or holds the 9.97e36 fill value
            NcFile(TRUE, RootGrid1D, "product" :> L3Product(NaN, Raw(1, 997, 34), NaN))
      [] id = "l3_short" ->
            \* the measurement has fewer rows than the latitude axis
            NcFile(TRUE, RootGrid1D,
                   "product" :> [n \in DOMAIN L3Product(NaN, NaN, NaN) |->
                                    Array(<<1, 3>>, <<Raw(1, 1, 15), Raw(1, 2, 15), Raw(1, 3, 15)>>)])
      [] id = "corrupt" -> NcFile(FALSE, Empty, Empty)
      [] id = "l2_ok" ->
            \* NO2 1.2e17 molecules/cm2, HCHO 1.5e16 molecules/cm2, O3 -420 DU
            NcFile(TRUE,
                   ("latitude" :> Lats2D) @@ ("longitude" :> Lons2D)
                   @@ ("NO2_column" :> Data3x3(Raw(1, 12, 16)))
                   @@ ("HCHO_column" :> Data3x3(Raw(1, 15, 15)))
                   @@ ("O3_column" :> Data3x3(Raw(-1, 420, 0))),
                   Empty)
      [] id = "l2_geo" ->
            NcFile(TRUE, Empty,
                   ("geolocation" :> RootGrid1D)
                   @@ ("geophysical_data" :>
                         (("tropospheric_NO2" :> Data3x3(Raw(1, 12, 16)))
                          @@ ("tropospheric_HCHO" :> Data3x3(Raw(1, 15, 15)))
                          @@ ("total_O3" :> Data3x3(Raw(1, 420, 0))))))
      [] id = "l3_2d" ->
            \* the product group, with 2-D coordinate arrays at the root
            NcFile(TRUE, ("latitude" :> Lats2D) @@ ("longitude" :> Lons2D),
                   "product" :> L3Product(Raw(1, 2, 15), Raw(1, 125, 13), Raw(1, 320, 0)))
      [] id = "l3_geo" ->
            \* the product group, with the coordinate arrays in geolocation only
            NcFile(TRUE, Empty,
                   ("product" :> L3Product(Raw(1, 2, 15), Raw(1, 125, 13), Raw(1, 320, 0)))
                   @@ ("geolocation" :> RootGrid1D))
      [] id = "l3_1d" ->
            \* the product group, 2 latitudes and 3 longitudes
            NcFile(TRUE, ("latitude" :> LatAxis2) @@ ("longitude" :> LonAxis3),
                   "product" :> (("vertical_column_troposphere" :> Data2x3(1, 15))
                                 @@ ("vertical_column" :> Data2x3(1, 15))
                                 @@ ("column_amount_o3" :> Data2x3(1, 2))))
      [] id = "l2_1d" ->
            \* no product group, 1-D axes at the root, negative raw values
            NcFile(TRUE,
                   ("latitude" :> LatAxis2) @@ ("longitude" :> LonAxis3)
                   @@ ("NO2_column" :> Data2x3(-1, 15))
                   @@ ("HCHO_column" :> Data2x3(-1, 15))
                   @@ ("O3_column" :> Data2x3(-1, 2)),
                   Empty)
      [] id = "l2_both" ->
            \* coordinate arrays at the root and, different ones, in geolocation
            NcFile(TRUE,
                   ("latitude" :> Lats2D) @@ ("longitude" :> Lons2D)
                   @@ ("NO2_column" :> Data3x3(Raw(1, 12, 16)))
                   @@ ("HCHO_column" :> Data3x3(Raw(1, 15, 15)))
                   @@ ("O3_column" :> Data3x3(Raw(1, 420, 0))),
                   "geolocation" :> ShiftedGrid1D)
      [] id = "l3_zero" ->
            \* NO2 0 molecules/cm2, HCHO 1.25e16 molecules/cm2, O3 300 DU
            NcFile(TRUE, RootGrid1D,
                   "product" :> L3Product(Raw(1, 0, 0), Raw(1, 125, 14), Raw(1, 300, 0)))
      [] id = "l2_nolon" ->
            \* no product group, a latitude and the variables, no longitude
            NcFile(TRUE,
                   ("latitude" :> Lats2D)
                   @@ ("NO2_column" :> Data3x3(Raw(1, 12, 16)))
                   @@ ("HCHO_column" :> Data3x3(Raw(1, 15, 15)))
                   @@ ("O3_column" :> Data3x3(Raw(1, 420, 0))),
                   Empty)
      [] id = "l2_novar" ->
            \* no product group, the coordinate arrays, no candidate variable
            NcFile(TRUE,
                   ("latitude" :> Lats2D) @@ ("longitude" :> Lons2D)
                   @@ ("main_data_quality_flag" :> Data3x3(Raw(1, 0, 0))),
                   Empty)
      [] id = "l2_order" ->
            \* the second candidate name at the root, the first one in a group
            NcFile(TRUE,
                   ("latitude" :> Lats2D) @@ ("longitude" :> Lons2D)
                   @@ ("NO2_column" :> Data3x3(Raw(1, 12, 16)))
                   @@ ("HCHO_column" :> Data3x3(Raw(1, 15, 15)))
                   @@ ("O3_column" :> Data3x3(Raw(1, 420, 0))),
                   "geophysical_data" :>
                       (("nitrogen_dioxide_tropospheric_column" :> Data3x3(Raw(1, 4, 15)))
                        @@ ("formaldehyde_tropospheric_column" :> Data3x3(Raw(1, 25, 14)))
                        @@ ("ozone_total_vertical_column" :> Data3x3(Raw(1, 310, 0)))))
      [] id = "l3_neg" ->
            \* every cell holds -2e30
            NcFile(TRUE, RootGrid1D,
                   "product" :> [n \in DOMAIN L3Product(NaN, NaN, NaN) |->
                                    Uniform3x3(Raw(-1, 2, 30))])

\* what earthaccess.download gives for a granule: nothing, an exception, or a file
Granules ==
    {[download |-> "empty", file |-> "none"], [download |-> "raises", file |-> "none"]}
    \cup {[download |-> "ok", file |-> id] : id \in FileIds}

----------------------------------------------------------------------------
(* Requests.                                                               *)

\* latitudes and longitudes a caller sends: malformed, valid outside the
\* coverage, and inside the coverage
Lats == {-91, 5, 40}
Lons == {-100, 200}
Pollutants == {"NO2", "O3", "HCHO", "PM25"}
\* get_overall_aqi: the default list (line 742) and lists a caller sends
PollLists == {<<"NO2", "O3", "HCHO">>, <<"O3", "PM25">>, <<"HCHO">>}

\* line 377: granules[:3]
Cap == 3

Min(a, b) == IF a <= b THEN a ELSE b

\* line 68
is_in_north_america(la, lo) == (7 <= la /\ la <= 83) /\ (-168 <= lo /\ lo <= -52)

\* lines 486-487: Query(..., ge=-90, le=90) and Query(..., ge=-180, le=180)
QueryBoundsOk(la, lo) == (-90 <= la /\ la <= 90) /\ (-180 <= lo /\ lo <= 180)

\* a pollutant without an entry gets the NO2 data set
dataset_options_default(p) ==
    CASE p = "O3" -> <<"TEMPO_O3TOT_L3">>
      [] p = "HCHO" -> <<"TEMPO_HCHO_L3">>
      [] OTHER -> <<"TEMPO_NO2_L3">>

\* lines 504-510
dataset_options(p) ==
    CASE p = "NO2" -> <<"TEMPO_NO2_L3">>
      [] p = "O3" -> <<"TEMPO_O3TOT_L3">>
      [] p = "HCHO" -> <<"TEMPO_HCHO_L3">>
      [] OTHER -> <<>>

\* round(processed_value, 2), line 585
Round2(v) ==
    IF Digits <= 2 THEN v
    ELSE LET q == 10 ^ (Digits - 2) IN Num(((v.h + q \div 2) \div q) * q)

Reading(p, value, unit, aqi, level, available, found) ==
    [pollutant |-> p, value |-> value, unit |-> unit, aqi |-> aqi,
     quality_level |-> level, available |-> available, granules_found |-> found]

\* lines 516-527 and 624-635
Unavailable(p, found) == Reading(p, None, "ppb", None, "No disponible", FALSE, found)

\* lines 579-594
Available(p, value, found) ==
    LET c == calculate_aqi(p, value) IN
    Reading(p, Round2(value), IF p \in {"NO2", "HCHO"} THEN "ppb" ELSE "DU",
            c.aqi, c.level, TRUE, found)

Response(status, body) == [status |-> status, body |-> body]

----------------------------------------------------------------------------
(* ensure_authentication, main.py:327-360.  What the environment does on   *)
(* a call that is not served from the cache: the credentials are missing,  *)
(* earthaccess.login raises, or it logs in.                                *)

LoginOutcomes == {"no_credentials", "login_raises", "login_ok"}

\* the cache of lines 330-331 is not consulted: every call logs in again
ensure_authentication_uncached(o) ==
    CASE o = "no_credentials" ->
            [earth_auth |-> earth_auth, auth_initialized |-> auth_initialized,
             ret |-> "None", login |-> FALSE]
      [] o = "login_raises" ->
            [earth_auth |-> earth_auth, auth_initialized |-> FALSE, ret |-> "None",
             login |-> TRUE]
      [] o = "login_ok" ->
            [earth_auth |-> "session", auth_initialized |-> TRUE, ret |-> "session",
             login |-> TRUE]

\* lines 330-360 with the globals holding ea and ai: the globals after the
\* call, the value returned, and whether earthaccess.login was called
EnsureAuth(ea, ai, o) ==
    IF ai /\ ea # "None"
    THEN [earth_auth |-> ea, auth_initialized |-> ai, ret |-> ea, login |-> FALSE]
    ELSE CASE o = "no_credentials" ->
                [earth_auth |-> ea, auth_initialized |-> ai, ret |-> "None",
                 login |-> FALSE]
           [] o = "login_raises" ->
                [earth_auth |-> ea, auth_initialized |-> FALSE, ret |-> "None",
                 login |-> TRUE]
           [] o = "login_ok" ->
                [earth_auth |-> "session", auth_initialized |-> TRUE, ret |-> "session",
                 login |-> TRUE]

ensure_authentication(o) == EnsureAuth(earth_auth, auth_initialized, o)

\* lines 417-428
startup_event ==
    /\ pc = "boot"
    /\ \E o \in LoginOutcomes :
        LET a == ensure_authentication(o) IN
        /\ earth_auth' = a.earth_auth
        /\ auth_initialized' = a.auth_initialized
    /\ pc' = "idle"
    /\ UNCHANGED <<avars, open_handles, temp_dirs, ovars, rvars>>

----------------------------------------------------------------------------
(* How get_air_quality ends, seen from its caller: the HTTP layer for      *)
(* /air-quality, the loop of get_overall_aqi (lines 748-773) otherwise.    *)

\* lines 753-769
OverallItem(p, rd) ==
    [pollutant |-> p, available |-> rd.available, aqi |-> rd.aqi, value |-> rd.value,
     unit |-> rd.unit, quality_level |-> rd.quality_level]

\* the locals of a get_air_quality call and of the calls it makes
frame == <<pollutant, authenticated, granules_count, i, touched, misses, granule, nc,
           nc_result, printed, result>>

\* the call has returned to the loop of get_overall_aqi: its locals are gone
PopFrame ==
    /\ pollutant' = "None" /\ authenticated' = FALSE /\ granules_count' = 0
    /\ i' = 0 /\ touched' = <<>> /\ misses' = <<>> /\ granule' = NoGranule
    /\ nc' = "unopened" /\ nc_result' = None /\ printed' = NoDiag
    /\ result' = None /\ reading' = None

\* the comparison of line 767 is >=: the last pollutant with the highest
\* aqi becomes the primary one
Return_last_wins(rd, source) ==
    IF entry = "/air-quality"
    THEN /\ reading' = rd
         /\ response' = Response(200, [data_source |-> source, reading |-> rd])
         /\ pc' = "done"
         /\ UNCHANGED <<frame, k, per_pollutant, overall_aqi, primary_pollutant>>
    ELSE /\ per_pollutant' = Append(per_pollutant, OverallItem(pollutant, rd))
         /\ IF rd.aqi # None /\ (overall_aqi = None \/ rd.aqi.n >= overall_aqi.n)
            THEN overall_aqi' = rd.aqi /\ primary_pollutant' = pollutant
            ELSE UNCHANGED <<overall_aqi, primary_pollutant>>
         /\ k' = k + 1
         /\ pc' = "overall"
         /\ PopFrame
         /\ UNCHANGED response

\* get_air_quality returns a response holding the reading rd
Return(rd, source) ==
    IF entry = "/air-quality"
    THEN /\ reading' = rd
         /\ response' = Response(200, [data_source |-> source, reading |-> rd])
         /\ pc' = "done"
         /\ UNCHANGED <<frame, k, per_pollutant, overall_aqi, primary_pollutant>>
    ELSE /\ per_pollutant' = Append(per_pollutant, OverallItem(pollutant, rd))
         /\ IF rd.aqi # None /\ (overall_aqi = None \/ rd.aqi.n > overall_aqi.n)
            THEN overall_aqi' = rd.aqi /\ primary_pollutant' = pollutant
            ELSE UNCHANGED <<overall_aqi, primary_pollutant>>
         /\ k' = k + 1
         /\ pc' = "overall"
         /\ PopFrame
         /\ UNCHANGED response

\* get_air_quality raises HTTPException(status): the HTTP layer answers it;
\* get_overall_aqi catches it (lines 771-773) and goes on
Raise(status) ==
    /\ IF entry = "/air-quality"
       THEN /\ response' = Response(status, [error |-> "HTTPException"])
            /\ pc' = "done"
            /\ UNCHANGED <<frame, reading, k, per_pollutant>>
       ELSE /\ per_pollutant' = Append(per_pollutant,
                                       [pollutant |-> pollutant, error |-> "HTTPException"])
            /\ k' = k + 1
            /\ pc' = "overall"
            /\ PopFrame
            /\ UNCHANGED response
    /\ UNCHANGED <<overall_aqi, primary_pollutant>>

\* the variables Return and Raise set
cvars == <<reading, response, k, per_pollutant, overall_aqi, primary_pollutant>>

----------------------------------------------------------------------------
(* The entry points.                                                       *)

\* the locals of one get_air_quality call, as they are when it is entered
FreshCall(p) ==
    /\ pollutant' = p /\ authenticated' = FALSE /\ granules_count' = 0
    /\ i' = 0 /\ touched' = <<>> /\ misses' = <<>> /\ granule' = NoGranule
    /\ nc' = "unopened" /\ nc_result' = None /\ printed' = NoDiag
    /\ result' = None /\ reading' = None

\* GET /air-quality, lines 484-490: the framework checks the Query bounds
\* and answers 422 itself, or calls get_air_quality
air_quality_request ==
    /\ pc = "idle"
    /\ \E la \in Lats, lo \in Lons, p \in Pollutants :
        /\ entry' = "/air-quality" /\ lat' = la /\ lon' = lo
        /\ FreshCall(p)
        /\ IF QueryBoundsOk(la, lo)
           THEN pc' = "get_air_quality" /\ UNCHANGED response
           ELSE pc' = "done" /\ response' = Response(422, [error |-> "validation"])
    /\ UNCHANGED <<avars, gvars, poll_list, k, per_pollutant, overall_aqi,
                   primary_pollutant>>

\* GET /overall-aqi, lines 733-746: lat and lon are Query(...) without bounds
overall_aqi_request ==
    /\ pc = "idle"
    /\ \E la \in Lats, lo \in Lons, pl \in PollLists :
        /\ entry' = "/overall-aqi" /\ lat' = la /\ lon' = lo
        /\ poll_list' = pl
    /\ k' = 1 /\ per_pollutant' = <<>>
    /\ overall_aqi' = None /\ primary_pollutant' = "None"
    /\ pc' = "overall"
    /\ UNCHANGED <<avars, gvars, rvars>>

\* lines 748-750: the next pollutant, get_air_quality(lat=lat, lon=lon, pollutant=p)
overall_call ==
    /\ pc = "overall" /\ k <= Len(poll_list)
    /\ FreshCall(poll_list[k])
    /\ pc' = "get_air_quality"
    /\ UNCHANGED <<avars, gvars, ovars, response>>

\* lines 775-781
overall_return ==
    /\ pc = "overall" /\ k > Len(poll_list)
    /\ response' = Response(200, [overall_aqi |-> overall_aqi,
                                  primary_pollutant |-> primary_pollutant,
                                  per_pollutant |-> per_pollutant])
    /\ pc' = "done"
    /\ UNCHANGED <<avars, gvars, ovars, frame, reading>>

----------------------------------------------------------------------------
(* get_air_quality, main.py:485-645.                                       *)

\* what a call leaves alone when it only returns or raises
ReturnFrame == UNCHANGED <<avars, gvars, entry, lat, lon, poll_list>>

\* lines 493-497
gaq_out_of_coverage ==
    /\ pc = "get_air_quality"
    /\ ~is_in_north_america(lat, lon)
    /\ Raise(400)
    /\ ReturnFrame

\* lines 510-531
gaq_unsupported ==
    /\ pc = "get_air_quality"
    /\ is_in_north_america(lat, lon)
    /\ dataset_options(pollutant) = <<>>
    /\ Return(Unavailable(pollutant, 0), "unsupported")
    /\ ReturnFrame

\* lines 533-535, and lines 618-645 when there is no authentication
gaq_authenticate ==
    /\ pc = "get_air_quality"
    /\ is_in_north_america(lat, lon)
    /\ dataset_options(pollutant) # <<>>
    /\ \E o \in LoginOutcomes :
        LET a == ensure_authentication(o) IN
        /\ earth_auth' = a.earth_auth
        /\ auth_initialized' = a.auth_initialized
        /\ IF a.ret # "None"
           THEN /\ authenticated' = TRUE
                /\ pc' = "search"
                /\ UNCHANGED <<cvars, pollutant, granules_count, i, touched, misses, granule,
                               nc, nc_result, printed, result>>
           ELSE Return(Unavailable(pollutant, 0), "unavailable")
    /\ UNCHANGED <<avars, open_handles, temp_dirs, entry, lat, lon, poll_list>>

\* the date argument: absent, a date, or text strptime rejects (line 540);
\* get_overall_aqi passes none
Dates == {"absent", "valid", "malformed"}

\* lines 536-569 and 611-645: the search of the data set, which raises or
\* returns a list of n granules; an unparsable date raises before it
gaq_search ==
    /\ pc = "search"
    /\ \E d \in Dates, raises \in BOOLEAN, n \in 0..MaxGranules :
        /\ entry = "/overall-aqi" => d = "absent"
        /\ LET found == IF d = "malformed" \/ raises THEN 0 ELSE n IN
           IF found > 0
           THEN /\ granules_count' = found
                /\ pc' = "process_tempo_data"
                /\ UNCHANGED <<cvars, pollutant, authenticated, i, touched, misses, granule,
                               nc, nc_result, printed, result>>
           ELSE Return(Unavailable(pollutant, found), "unavailable")
    /\ UNCHANGED <<avars, gvars, entry, lat, lon, poll_list>>

\* no value from process_tempo_data is answered with an error
gaq_finish_raising ==
    /\ pc = "returned"
    /\ IF result.k = "dict" /\ result.value.k \notin {"None", "nan"}
       THEN Return(Available(pollutant, result.value, granules_count), "tempo_satellite")
       ELSE Raise(500) /\ reading' = reading
    /\ ReturnFrame

\* lines 572-645: process_tempo_data has returned
gaq_finish ==
    /\ pc = "returned"
    /\ IF result.k = "dict" /\ result.value.k \notin {"None", "nan"}
       THEN Return(Available(pollutant, result.value, granules_count), "tempo_satellite")
       ELSE Return(Unavailable(pollutant, granules_count), "unavailable")
    /\ ReturnFrame

----------------------------------------------------------------------------
(* process_tempo_data, main.py:362-415, with the process_tempo_netcdf call *)
(* of line 391 in two steps: Dataset() opens the file, then the rest.      *)

\* what the loop leaves alone
LoopFrame == UNCHANGED <<avars, ovars, cvars, pollutant, authenticated, granules_count>>

\* lines 365-375
ptd_start ==
    /\ pc = "process_tempo_data"
    /\ \E o \in LoginOutcomes :
        LET a == ensure_authentication(o) IN
        /\ earth_auth' = a.earth_auth
        /\ auth_initialized' = a.auth_initialized
        /\ IF granules_count = 0 \/ a.ret = "None"
           THEN result' = None /\ pc' = "returned" /\ i' = i
           ELSE result' = result /\ pc' = "loop" /\ i' = 1
    /\ LoopFrame
    /\ UNCHANGED <<open_handles, temp_dirs, touched, misses, granule, nc, nc_result,
                   printed>>

\* the cap of line 377 dropped: every granule of the list is tried
ptd_download_uncapped ==
    /\ pc = "loop" /\ i <= granules_count
    /\ temp_dirs' = temp_dirs + 1
    /\ touched' = Append(touched, i)
    /\ nc' = "unopened" /\ nc_result' = None /\ printed' = NoDiag
    /\ \E g \in Granules :
        /\ granule' = g
        /\ IF g.download = "ok"
           THEN pc' = "open" /\ i' = i /\ misses' = misses
           ELSE pc' = "loop" /\ i' = i + 1 /\ misses' = Append(misses, i)
    /\ LoopFrame
    /\ UNCHANGED <<earth_auth, auth_initialized, open_handles, result>>

\* lines 377-389 and 404-407: the next granule of granules[:3] gets a
\* temporary directory and is downloaded; no file or an exception: continue
ptd_download ==
    /\ pc = "loop" /\ i <= Min(Cap, granules_count)
    /\ temp_dirs' = temp_dirs + 1
    /\ touched' = Append(touched, i)
    /\ nc' = "unopened" /\ nc_result' = None /\ printed' = NoDiag
    /\ \E g \in Granules :
        /\ granule' = g
        /\ IF g.download = "ok"
           THEN pc' = "open" /\ i' = i /\ misses' = misses
           ELSE pc' = "loop" /\ i' = i + 1 /\ misses' = Append(misses, i)
    /\ LoopFrame
    /\ UNCHANGED <<earth_auth, auth_initialized, open_handles, result>>

\* lines 409-410
ptd_exhausted ==
    /\ pc = "loop" /\ i > Min(Cap, granules_count)
    /\ result' = None
    /\ pc' = "returned"
    /\ LoopFrame
    /\ UNCHANGED <<gvars, i, touched, misses, granule, nc, nc_result, printed>>

\* lines 145-149: Dataset(file_path, 'r'); a file it cannot read raises,
\* and the handler of lines 322-325 returns None
netcdf_open ==
    /\ pc = "open"
    /\ IF FileOf(granule.file).opens
       THEN /\ nc' = "open" /\ open_handles' = open_handles + 1
            /\ pc' = "read"
       ELSE /\ nc' = nc /\ open_handles' = open_handles
            /\ pc' = "cleanup"
    /\ LoopFrame
    /\ UNCHANGED <<earth_auth, auth_initialized, temp_dirs, i, touched, misses, granule,
                   nc_result, printed, result>>

\* lines 152-325
netcdf_read ==
    /\ pc = "read"
    /\ LET r == process_tempo_netcdf(FileOf(granule.file), lat, lon, pollutant) IN
        /\ nc_result' = r.ret
        /\ printed' = r.printed
        /\ nc' = IF r.closed THEN "closed" ELSE "open"
        /\ open_handles' = IF r.closed THEN open_handles - 1 ELSE open_handles
    /\ pc' = "cleanup"
    /\ LoopFrame
    /\ UNCHANGED <<earth_auth, auth_initialized, temp_dirs, i, touched, misses, granule,
                   result>>

\* a file without a value ends the loop: None is returned at once
ptd_cleanup_aborting ==
    /\ pc = "cleanup"
    /\ temp_dirs' = temp_dirs - 1
    /\ IF nc_result.k = "dict" /\ "value" \in DOMAIN nc_result
       THEN result' = nc_result /\ pc' = "returned" /\ i' = i /\ misses' = misses
       ELSE result' = None /\ pc' = "returned" /\ i' = i /\ misses' = Append(misses, i)
    /\ LoopFrame
    /\ UNCHANGED <<earth_auth, auth_initialized, open_handles, touched, granule, nc,
                   nc_result, printed>>

\* the return of line 402 dropped: the loop goes on after a value
ptd_cleanup_not_stopping ==
    /\ pc = "cleanup"
    /\ temp_dirs' = temp_dirs - 1
    /\ IF nc_result.k = "dict" /\ "value" \in DOMAIN nc_result
       THEN result' = nc_result /\ pc' = "loop" /\ i' = i + 1 /\ misses' = misses
       ELSE result' = result /\ pc' = "loop" /\ i' = i + 1 /\ misses' = Append(misses, i)
    /\ LoopFrame
    /\ UNCHANGED <<earth_auth, auth_initialized, open_handles, touched, granule, nc,
                   nc_result, printed>>

\* lines 393-402: the file and its directory are removed; a result with a
\* value is returned, anything else goes on with the next granule
ptd_cleanup ==
    /\ pc = "cleanup"
    /\ temp_dirs' = temp_dirs - 1
    /\ IF nc_result.k = "dict" /\ "value" \in DOMAIN nc_result
       THEN result' = nc_result /\ pc' = "returned" /\ i' = i /\ misses' = misses
       ELSE result' = result /\ pc' = "loop" /\ i' = i + 1 /\ misses' = Append(misses, i)
    /\ LoopFrame
    /\ UNCHANGED <<earth_auth, auth_initialized, open_handles, touched, granule, nc,
                   nc_result, printed>>

----------------------------------------------------------------------------
(* Spec: the process starts, then serves one request.                      *)

Init ==
    /\ aqi_pollutant = "NO2" /\ aqi_value = None /\ aqi_result = Pending
    /\ auth_log = <<>>
    /\ IdleProcess /\ IdleRequest
    /\ pc = "boot"

Next ==
    \/ startup_event
    \/ air_quality_request
    \/ overall_aqi_request
    \/ overall_call
    \/ overall_return
    \/ gaq_out_of_coverage
    \/ gaq_unsupported
    \/ gaq_authenticate
    \/ gaq_search
    \/ gaq_finish
    \/ ptd_start
    \/ ptd_download
    \/ ptd_exhausted
    \/ netcdf_open
    \/ netcdf_read
    \/ ptd_cleanup

Spec == Init /\ [][Next]_vars

----------------------------------------------------------------------------
(* Claims about the extraction, checked under Spec.                        *)

\* the positions 1 .. n, in order
UpTo(n) == [j \in 1..n |-> j]

\* the granule at position i is a file that gives a value for the request
GranuleHasValue ==
    /\ granule.download = "ok"
    /\ FileOf(granule.file).opens
    /\ process_tempo_netcdf(FileOf(granule.file), lat, lon, pollutant).ret.k = "dict"

\* the value the granule at position i gives
GranuleValue == process_tempo_netcdf(FileOf(granule.file), lat, lon, pollutant).ret

\* the file that was opened has no variable for the pollutant
NoVariable(f, p) ==
    IF "product" \in DOMAIN f.groups
    THEN var_map(p) \notin DOMAIN f.groups["product"]
    ELSE FoundAt(f, p) = 0

\* C1: a candidate that fails, in whatever way, does not end the
\* extraction: process_tempo_data returns None only after every candidate
\* within the cap was attempted, and a candidate that gives a value after
\* earlier misses has its value returned (file 3 after files 1 and 2 failed).
C1_FailureDoesNotAbort ==
    pc = "returned" =>
        /\ result = None => Len(touched) = Min(3, granules_count)
        /\ (Len(touched) > 0 /\ GranuleHasValue) => result = GranuleValue

\* C1 witness: files 1 and 2 failed, one of them by an exception raised
\* after it was opened, and the value of file 3 is returned.
C1_Witness ==
    /\ pc = "returned" /\ touched = <<1, 2, 3>> /\ misses = <<1, 2>>
    /\ open_handles = 1 /\ GranuleHasValue /\ result = GranuleValue

\* C2: candidates are attempted in the order of the list, and the first one
\* that gives a value ends the loop: its value is returned, every earlier
\* candidate was a miss, and nothing is downloaded or opened afterwards.
C2_OrderAndShortCircuit ==
    /\ touched = UpTo(Len(touched))
    /\ result.k = "dict" =>
        /\ pc \in {"returned", "done"}
        /\ i = Len(touched) /\ misses = UpTo(i - 1)
        /\ result = GranuleValue

\* C2 witness: the second of four candidates gave the value returned.
C2_Witness ==
    /\ pc = "returned" /\ result.k = "dict" /\ granules_count = 4
    /\ touched = <<1, 2>> /\ misses = <<1>>

\* C3: one call of process_tempo_data downloads or opens at most 3
\* candidates, and only the first three of the list, however long it is.
C3_AtMostThreeFiles ==
    /\ Len(touched) <= 3
    /\ \A j \in 1..Len(touched) : touched[j] <= 3
    /\ pc \in {"open", "read", "cleanup"} => i <= 3

\* C3 witness: a list of four candidates whose first three all failed:
\* None is returned and the fourth was never touched.
C3_Witness ==
    /\ pc = "returned" /\ granules_count = 4 /\ result = None
    /\ touched = <<1, 2, 3>> /\ misses = <<1, 2, 3>>

\* C4: when process_tempo_netcdf has returned, the handle it opened is
\* closed, on every exit path, the exception handler included.
C4_HandleClosedOnEveryExit == pc = "cleanup" => nc # "open"

\* C5: at most one candidate file handle is open in every reachable state.
C5_AtMostOneHandleOpen == open_handles <= 1

\* C6: a /air-quality request inside the coverage always completes with
\* status 200, and when process_tempo_data gave no value (every attempted
\* candidate failed, none was found, the search or the authentication
\* failed) its reading is the ordinary unavailable one; get_overall_aqi
\* never records an error for a pollutant of a point inside the coverage.
C6_FailureIsUnavailableNotError ==
    /\ (entry = "/air-quality" /\ pc = "done" /\ QueryBoundsOk(lat, lon)
            /\ is_in_north_america(lat, lon))
        => /\ response.status = 200
           /\ result.k # "dict" =>
                /\ reading.available = FALSE
                /\ reading.value = None /\ reading.aqi = None
    /\ (entry = "/overall-aqi" /\ is_in_north_america(lat, lon))
        => \A j \in 1..Len(per_pollutant) : "error" \notin DOMAIN per_pollutant[j]

\* C6 witness: three candidates were attempted, all failed, and the
\* request ended with status 200 and an unavailable reading.
C6_Witness ==
    /\ entry = "/air-quality" /\ pc = "done" /\ misses = <<1, 2, 3>>
    /\ response.status = 200 /\ reading.available = FALSE

\* the positions at which a request authenticates, searches, downloads or
\* opens a file
Touching == {"search", "process_tempo_data", "loop", "open", "read", "cleanup", "returned"}

\* C7: a request with a latitude outside [-90, 90] or a longitude outside
\* [-180, 180] never authenticates, searches, downloads or opens a file, and
\* it ends rejected as an error, on /air-quality and on /overall-aqi.
C7_MalformedRejected ==
    (entry # "none" /\ ~QueryBoundsOk(lat, lon)) =>
        /\ pc \notin Touching
        /\ pc = "done" => response.status \in {400, 422}

\* C8: the failure process_tempo_netcdf returns for a file without a
\* variable for the pollutant carries the names probed and the names that
\* exist, and process_tempo_data reports the misses it met with its result.
C8_FailureCarriesDiagnostics ==
    /\ (pc = "cleanup" /\ nc = "closed" /\ NoVariable(FileOf(granule.file), pollutant))
        => ("probed" \in DOMAIN nc_result /\ "available" \in DOMAIN nc_result)
    /\ (pc = "returned" /\ misses # <<>>) => "diagnostics" \in DOMAIN result

----------------------------------------------------------------------------
(* SpecNc: process_tempo_netcdf called once, on a file of the catalogue,   *)
(* for a target anywhere in the valid range and a pollutant.               *)

NcFileIds ==
    FileIds \cup {"l3_2d", "l3_geo", "l3_1d", "l2_1d", "l2_both", "l3_neg",
                  "l2_nolon", "l2_novar", "l2_order"}

\* the ends of the valid range, the grids' middle and a point between cells
NcLats == {-90, 39, 40, 90}
NcLons == {-180, -100, -99, 180}

InitNc ==
    /\ aqi_pollutant = "NO2" /\ aqi_value = None /\ aqi_result = Pending
    /\ auth_log = <<>>
    /\ IdleProcess
    /\ entry = "none" /\ poll_list = <<>> /\ k = 0 /\ per_pollutant = <<>>
    /\ overall_aqi = None /\ primary_pollutant = "None"
    /\ lat \in NcLats /\ lon \in NcLons /\ pollutant \in Pollutants
    /\ granule \in {[download |-> "ok", file |-> id] : id \in NcFileIds}
    /\ authenticated = FALSE /\ granules_count = 0
    /\ i = 0 /\ touched = <<>> /\ misses = <<>>
    /\ nc = "unopened" /\ nc_result = None /\ printed = NoDiag
    /\ result = None /\ reading = None /\ response = None
    /\ pc = "open"

NextNc ==
    \/ netcdf_open
    \/ netcdf_read

SpecNc == InitNc /\ [][NextNc]_vars

----------------------------------------------------------------------------
(* Claims about process_tempo_netcdf, checked under SpecNc.                *)

\* the file of the call, and whether the call has returned from reading it
NcFileNow == FileOf(granule.file)
NcRead == pc = "cleanup" /\ nc # "unopened"
NcL3 == "product" \in DOMAIN NcFileNow.groups

\* the coordinate arrays the call resolves (None when it finds none)
NcCoords == IF NcL3 THEN L3Coords(NcFileNow) ELSE L2Coords(NcFileNow)

\* the name of the variable the call reads, "" when the file has none
NcVarName ==
    IF NcL3
    THEN (IF var_map(pollutant) \in DOMAIN NcFileNow.groups["product"]
          THEN var_map(pollutant) ELSE "")
    ELSE (IF FoundAt(NcFileNow, pollutant) = 0 THEN ""
          ELSE FirstName(search_locations(NcFileNow)[FoundAt(NcFileNow, pollutant)],
                         l2_var_options(pollutant)))

\* the measurement the call reads, sliced to two axes
NcData ==
    LET d == IF NcL3 THEN NcFileNow.groups["product"][NcVarName]
             ELSE search_locations(NcFileNow)[FoundAt(NcFileNow, pollutant)][NcVarName]
    IN  IF ndim(d) = 3 THEN FirstSlice(d) ELSE d

\* the call found coordinate arrays that are not empty, and a measurement
NcResolved ==
    /\ NcRead /\ NcCoords.lats # None /\ NcCoords.lons # None /\ NcVarName # ""
    /\ Len(NcCoords.lats.flat) > 0 /\ Len(NcCoords.lons.flat) > 0
    /\ ndim(NcCoords.lats) = ndim(NcCoords.lons)
    /\ ndim(NcCoords.lats) = 2 => NcCoords.lats.shape = NcCoords.lons.shape

\* the index the call computes from the coordinate arrays
NcIndex ==
    IF NcL3 THEN L3Nearest(NcCoords.lats, NcCoords.lons, lat, lon)
    ELSE L2Nearest(NcCoords.lats, NcCoords.lons, lat, lon)

\* the call read a cell of the measurement and closed the file
NcExtracted == NcResolved /\ nc = "closed" /\ CanIndex(NcData, NcIndex)

\* |x| > 1e30, or x is not a number
Beyond(x) == x.k = "nan" \/ MagGt(x.m, x.e, 1, 30)

\* C15: process_tempo_netcdf returns no value for a raw value that is NaN or
\* beyond 1e30 in magnitude, positive or negative; it converts and returns
\* a value only for a number inside that band.
C15_SentinelBandBothSides ==
    NcExtracted =>
        LET x == At(NcData, NcIndex) IN
        /\ Beyond(x) => nc_result = None
        /\ nc_result.k = "dict" => ~Beyond(x)

\* v = |x| * fm * 10^fe, to the last decimal the model holds (Huge beyond
\* the decimals it holds)
AbsTimes(v, x, fm, fe) ==
    LET ex == x.e + fe + Digits IN
    IF ~Holds(x.m * fm, ex) THEN v = Huge
    ELSE /\ v.k = "num" /\ v.h >= 0
         /\ IF ex >= 0 THEN v.h = x.m * fm * 10 ^ ex
            ELSE IF ex < -9 THEN v.h = 0
            ELSE v.h * 10 ^ (-ex) <= x.m * fm /\ x.m * fm < (v.h + 1) * 10 ^ (-ex)

\* C16: the value returned for a valid raw value is |raw| * 5e-16 for NO2,
\* |raw| * 8e-16 for HCHO and |raw| for O3, never negative; raw NO2 2e15
\* molecules/cm2 gives 1.0.
C16_AbsTimesFactor ==
    /\ (NcExtracted /\ ~Beyond(At(NcData, NcIndex))) =>
            LET x == At(NcData, NcIndex) IN
            /\ nc_result.k = "dict"
            /\ CASE pollutant = "NO2" -> AbsTimes(nc_result.value, x, 5, -16)
                 [] pollutant = "HCHO" -> AbsTimes(nc_result.value, x, 8, -16)
                 [] OTHER -> AbsTimes(nc_result.value, x, 1, 0)
    /\ (NcRead /\ granule.file = "l3_ok" /\ pollutant = "NO2" /\ lat = 40 /\ lon = -100)
        => nc_result.value = Num(Scale)

\* C16 witness: a negative raw NO2 value, -5e15, came back as 2.5 ppb.
C16_Witness ==
    /\ NcRead /\ granule.file = "l2_1d" /\ pollutant = "NO2" /\ lat = 40 /\ lon = -99
    /\ nc_result.k = "dict" /\ nc_result.value = Num((5 * Scale) \div 2)

\* idx indexes array a within its bounds: no more indices than axes, each
\* below the length of its axis
WithinBounds(a, idx) ==
    /\ Len(idx) <= ndim(a)
    /\ \A d \in 1..Len(idx) : 0 <= idx[d] /\ idx[d] < a.shape[d]

\* C17: for every target in [-90, 90] x [-180, 180] and every non-empty
\* pair of coordinate arrays, the index the nearest-point computation
\* returns is within the bounds of the arrays it is used to index.
C17_IndexWithinBounds ==
    (NcResolved /\ QueryBoundsOk(lat, lon)) =>
        /\ WithinBounds(NcData, NcIndex)
        /\ NcL3 => /\ WithinBounds(NcCoords.lats, <<NcIndex[1]>>)
                   /\ WithinBounds(NcCoords.lons, <<NcIndex[2]>>)

\* the first index of a 1-D axis that minimises |axis[n] - t|
NearestOnAxis(axis, t) ==
    CHOOSE n \in 0..(Len(axis.flat) - 1) :
        /\ \A q \in 0..(Len(axis.flat) - 1) :
            Abs(axis.flat[n + 1] - t) <= Abs(axis.flat[q + 1] - t)
        /\ \A q \in 0..(n - 1) : Abs(axis.flat[q + 1] - t) > Abs(axis.flat[n + 1] - t)

\* the coordinate arrays resolved are two 1-D axes
NcAxes == NcResolved /\ ndim(NcCoords.lats) = 1

CellDistance(lats, lons, r, c) ==
    (At(lats, <<r, c>>) - lat) * (At(lats, <<r, c>>) - lat)
    + (At(lons, <<r, c>>) - lon) * (At(lons, <<r, c>>) - lon)

\* the cell of a 2-D coordinate pair nearest to the target, the first in
\* row-major order among equals
NearestCell(lats, lons) ==
    CHOOSE cell \in (0..(lats.shape[1] - 1)) \X (0..(lats.shape[2] - 1)) :
        \A r \in 0..(lats.shape[1] - 1), c \in 0..(lats.shape[2] - 1) :
            /\ CellDistance(lats, lons, cell[1], cell[2]) <= CellDistance(lats, lons, r, c)
            /\ (r < cell[1] \/ (r = cell[1] /\ c < cell[2]))
                => CellDistance(lats, lons, r, c) > CellDistance(lats, lons, cell[1], cell[2])

\* C19: whenever the coordinate arrays are 2-D, with or without the product
\* group, the cell read is the arg-minimum of the distance over all cells;
\* for (3, 3) arrays whose cell (1, 1) is the target, that is cell (1, 1).
C19_ExhaustiveGrid ==
    (NcResolved /\ ndim(NcCoords.lats) = 2 /\ NcData.shape = NcCoords.lats.shape) =>
        LET cell == NearestCell(NcCoords.lats, NcCoords.lons) IN
        /\ (lat = 40 /\ lon = -100) => cell = <<1, 1>>
        /\ nc = "closed"
        /\ nc_result = Converted(At(NcData, cell), NcVarName, pollutant)

\* the file declares latitude and longitude in this container
HasCoords(vm) == "latitude" \in DOMAIN vm /\ "longitude" \in DOMAIN vm

\* the geolocation group of the file, Empty when it has none
NcGeolocation ==
    IF "geolocation" \in DOMAIN NcFileNow.groups
    THEN NcFileNow.groups["geolocation"] ELSE Empty

\* C20: for every layout, coordinate arrays declared at the root are the
\* ones used, and when they are absent at the root but present under the
\* geolocation group the file is resolved with the nested arrays and the
\* extraction proceeds, also for a file with the product group.
C20_RootFirstThenNested ==
    (NcRead /\ NcVarName # "") =>
        /\ HasCoords(NcFileNow.root) =>
            NcCoords = [lats |-> NcFileNow.root["latitude"],
                        lons |-> NcFileNow.root["longitude"]]
        /\ (~HasCoords(NcFileNow.root) /\ HasCoords(NcGeolocation)) =>
            /\ NcCoords = [lats |-> NcGeolocation["latitude"],
                           lons |-> NcGeolocation["longitude"]]
            /\ nc_result.k = "dict"

\* the containers of the file: its root and its groups
NcContainers == {NcFileNow.root} \cup {NcFileNow.groups[g] : g \in DOMAIN NcFileNow.groups}

\* some container of the file declares one of the names
Declares(names) == \E vm \in NcContainers : \E n \in names : n \in DOMAIN vm

\* the names under which process_tempo_netcdf looks for the pollutant
VariableNames(p) ==
    (IF var_map(p) = "" THEN {} ELSE {var_map(p)})
    \cup {l2_var_options(p)[j] : j \in 1..Len(l2_var_options(p))}

Searched(name) ==
    \E j \in 1..Len(search_locations(NcFileNow)) : name \in DOMAIN search_locations(NcFileNow)[j]

\* C22: of the candidate names of the pollutant that exist in the searched
\* containers of a file, the variable used is the one that comes first in
\* the ordered candidate list.
C22_FirstCandidateInListOrder ==
    (NcRead /\ ~NcL3 /\ nc_result.k = "dict") =>
        LET names == l2_var_options(pollutant) IN
        \E j \in 1..Len(names) :
            /\ nc_result.variable_used = names[j]
            /\ \A q \in 1..(j - 1) : ~Searched(names[q])

----------------------------------------------------------------------------
(* SpecAuth: the calls of ensure_authentication a process makes, one after *)
(* the other: the call of startup_event (line 420), then the calls of the  *)
(* requests (lines 533 and 369).  A handler has no point at which it       *)
(* yields, so the calls of request 1 all come before those of request 2.   *)

\* 0 is startup_event, 1 and 2 are two requests
Invocations == {0, 1, 2}

InitAuth ==
    /\ aqi_pollutant = "NO2" /\ aqi_value = None /\ aqi_result = Pending
    /\ auth_log = <<>>
    /\ IdleProcess /\ IdleRequest
    /\ pc = "boot"

\* one call: what the environment does (o) is recorded with what the call
\* returned and whether it called earthaccess.login (a call that does
\* assigns a global: both on success, auth_initialized when login raises)
auth_call ==
    /\ Len(auth_log) < MaxCalls
    /\ \E c \in Invocations, o \in LoginOutcomes :
        /\ IF auth_log = <<>> THEN c = 0
           ELSE c > 0 /\ c >= auth_log[Len(auth_log)].invocation
        /\ LET a == ensure_authentication(o) IN
            /\ earth_auth' = a.earth_auth
            /\ auth_initialized' = a.auth_initialized
            /\ auth_log' = Append(auth_log,
                                  [invocation |-> c, env |-> o, ret |-> a.ret,
                                   login |-> a.login])
    /\ pc' = "idle"
    /\ UNCHANGED <<aqi_pollutant, aqi_value, aqi_result, open_handles, temp_dirs,
                   ovars, rvars>>

NextAuth == auth_call

SpecAuth == InitAuth /\ [][NextAuth]_vars

----------------------------------------------------------------------------
(* Claims about the authentication cache, checked under SpecAuth.          *)

\* the entries of the history made by startup_event or by request c
RECURSIVE OwnCalls(_, _)
OwnCalls(log, c) ==
    IF log = <<>> THEN <<>>
    ELSE (IF Head(log).invocation \in {0, c} THEN <<Head(log)>> ELSE <<>>)
         \o OwnCalls(Tail(log), c)

\* what the calls of log return when they are the only ones made, starting
\* with the globals ea and ai and with the environment doing the same
RECURSIVE Alone(_, _, _)
Alone(log, ea, ai) ==
    IF log = <<>> THEN <<>>
    ELSE LET a == EnsureAuth(ea, ai, Head(log).env) IN
         <<a.ret>> \o Alone(Tail(log), a.earth_auth, a.auth_initialized)

\* what the calls of log returned in the history
Returns(log) == [j \in 1..Len(log) |-> log[j].ret]

\* C23: two requests share no mutable state: no call of one request reads a
\* variable that a call of the other request assigned, and the calls of
\* each request return what they return when the request runs alone.
C23_NoSharedMutableState ==
    /\ \A a, b \in 1..Len(auth_log) :
        (auth_log[a].invocation > 0 /\ auth_log[b].invocation > 0
         /\ auth_log[a].invocation # auth_log[b].invocation) => ~auth_log[a].login
    /\ \A c \in {1, 2} :
        Returns(OwnCalls(auth_log, c)) = Alone(OwnCalls(auth_log, c), "None", FALSE)

\* the call at position j of the history found the cache filled
Cached(j) == \E q \in 1..(j - 1) : auth_log[q].ret # "None"

\* C24: once a call has logged in, every later call returns the handle it
\* stored and does not call login again; a call that fails stores no handle
\* and leaves auth_initialized false; the handle held is the one of the last
\* successful login.
C24_CacheOfLastSuccessfulLogin ==
    /\ \A j \in 1..Len(auth_log) :
        /\ Cached(j) => (auth_log[j].ret = "session" /\ ~auth_log[j].login)
        /\ ~Cached(j) => (auth_log[j].ret # "None" <=> auth_log[j].env = "login_ok")
    /\ (auth_log # <<>> /\ auth_log[Len(auth_log)].ret = "None")
        => (earth_auth = "None" /\ ~auth_initialized)
    /\ auth_initialized => earth_auth # "None"
    /\ earth_auth # "None" =>
        \E j \in 1..Len(auth_log) : auth_log[j].login /\ auth_log[j].ret = earth_auth

\* C24 witness: login raised at startup, the first request logged in, and a
\* call of the second request, made without credentials in the environment,
\* returned the cached handle without calling login.
C24_Witness ==
    /\ Len(auth_log) = 3
    /\ auth_log[1].ret = "None" /\ auth_log[1].login
    /\ auth_log[2].ret = "session" /\ auth_log[2].login
    /\ auth_log[3].env = "no_credentials" /\ auth_log[3].ret = "session"
    /\ ~auth_log[3].login /\ auth_log[3].invocation = 2
    /\ earth_auth = "session" /\ auth_initialized

----------------------------------------------------------------------------
(* Claims about the requests, checked under Spec.                          *)

\* C25: every temporary directory process_tempo_data creates for a
\* candidate is removed before the next candidate is attempted and before
\* the function returns, on every path.
C25_TempDirsRemoved == pc \notin {"open", "read", "cleanup"} => temp_dirs = 0

\* C26: in every reading get_air_quality returns, available is true exactly
\* when the value is present; an unavailable reading has no value, no aqi
\* and the level "No disponible"; an available one has an integer aqi and
\* the level of the segment of its value.
C26_ReadingConsistent ==
    reading # None =>
        /\ reading.available <=> reading.value # None
        /\ ~reading.available =>
            /\ reading.value = None /\ reading.aqi = None
            /\ reading.quality_level = "No disponible"
        /\ reading.available =>
            /\ reading.aqi.k = "int"
            /\ reading.quality_level = Segment(pollutant, result.value.h).level
            /\ reading.aqi.n = int(Segment(pollutant, result.value.h).aqi)

\* the request asks /air-quality for a pollutant without a data set
Unsupported == entry = "/air-quality" /\ pollutant \notin {"NO2", "O3", "HCHO"}

\* process_tempo_netcdf gives no value for pollutant p, whatever the file
\* and the target
NoValueFromAnyFile(p) ==
    \A id \in NcFileIds, la \in NcLats, lo \in NcLons :
        FileOf(id).opens => process_tempo_netcdf(FileOf(id), la, lo, p).ret = None

\* the request never authenticates, searches, downloads or opens a file
Untouched ==
    /\ pc \notin Touching
    /\ ~authenticated /\ granules_count = 0 /\ touched = <<>>
    /\ open_handles = 0 /\ temp_dirs = 0

\* C27 (as the code has it): a pollutant outside NO2, O3, HCHO never yields
\* a value: for a point inside the coverage get_air_quality returns an
\* unavailable reading with data_source "unsupported" (outside the coverage
\* it raises the 400 of the coverage check first), without authenticating,
\* searching or downloading; and process_tempo_netcdf returns no value for
\* such a pollutant whatever the file contains.
C27_UnsupportedPollutant ==
    Unsupported =>
        /\ Untouched
        /\ (pc = "done" /\ QueryBoundsOk(lat, lon)) =>
            IF is_in_north_america(lat, lon)
            THEN /\ response.status = 200
                 /\ response.body.data_source = "unsupported"
                 /\ reading = Unavailable(pollutant, 0)
            ELSE response.status = 400
        /\ pc = "done" => NoValueFromAnyFile(pollutant)

\* C27 witness: PM25 was asked for a point inside the coverage by a process
\* whose startup did not authenticate; the answer is the unsupported
\* reading and there is still no handle.
C27_Witness ==
    /\ Unsupported /\ pc = "done" /\ is_in_north_america(lat, lon)
    /\ response.status = 200 /\ response.body.data_source = "unsupported"
    /\ reading.available = FALSE /\ earth_auth = "None"

\* C27 as stated: the unsupported reading for every request that reaches
\* get_air_quality.
C27_UnsupportedEverywhere ==
    Unsupported =>
        /\ Untouched
        /\ (pc = "done" /\ QueryBoundsOk(lat, lon)) =>
            /\ response.status = 200
            /\ response.body.data_source = "unsupported"
            /\ reading = Unavailable(pollutant, 0)
        /\ pc = "done" => NoValueFromAnyFile(pollutant)

\* the positions of the items of per_pollutant that carry an aqi
Scored ==
    {j \in 1..Len(per_pollutant) :
        "aqi" \in DOMAIN per_pollutant[j] /\ per_pollutant[j].aqi # None}

\* C28: get_overall_aqi answers one item per requested pollutant, in
\* order, errors included; overall_aqi is the highest aqi among the items
\* that have one and primary_pollutant the first pollutant in request order
\* that has it; both are absent exactly when no item has an aqi.
C28_OverallIsFirstMaximum ==
    (entry = "/overall-aqi" /\ pc = "done") =>
        /\ Len(per_pollutant) = Len(poll_list)
        /\ \A j \in 1..Len(poll_list) : per_pollutant[j].pollutant = poll_list[j]
        /\ response.body.overall_aqi = overall_aqi
        /\ response.body.primary_pollutant = primary_pollutant
        /\ (Scored = {}) <=> (overall_aqi = None)
        /\ (Scored = {}) <=> (primary_pollutant = "None")
        /\ Scored # {} =>
            \E j \in Scored :
                /\ \A q \in Scored : per_pollutant[q].aqi.n <= per_pollutant[j].aqi.n
                /\ \A q \in Scored : q < j => per_pollutant[q].aqi.n < per_pollutant[j].aqi.n
                /\ overall_aqi = per_pollutant[j].aqi
                /\ primary_pollutant = poll_list[j]

\* C28 witness: NO2, O3 and HCHO were asked; O3 and HCHO both scored 50,
\* more than NO2, and O3, the earlier of the two, is the primary pollutant.
C28_Witness ==
    /\ entry = "/overall-aqi" /\ pc = "done" /\ poll_list = <<"NO2", "O3", "HCHO">>
    /\ Scored = {1, 2, 3}
    /\ per_pollutant[2].aqi = Int_(50) /\ per_pollutant[3].aqi = Int_(50)
    /\ per_pollutant[1].aqi.n < 50
    /\ overall_aqi = Int_(50) /\ primary_pollutant = "O3"

====
